---------------------------- MODULE Spec2Model ----------------------------
(***************************************************************************)
(* Time tracker: the Express API (apps/api) with its entry store, and the  *)
(* history page (apps/web) that groups, totals and filters the entries.    *)
(*                                                                         *)
(* Strings the code slices or compares are sequences of one-character      *)
(* strings; hours are whole numbers of hours, for which the additions of   *)
(* the code are exact.                                                     *)
(***************************************************************************)
EXTENDS Integers, Sequences, FiniteSets, TLC

VARIABLES
    store,        \* the TimeEntry table: a set of rows
    nextId,       \* the next autoincrement id of the table
    req,          \* per connection: the POST /entries handler's position and locals
    out,          \* the last request answered, with its response
    entries,      \* page state: the loaded entries
    filterMode,   \* page state: "all" | "month"
    filterYear,   \* page state: selected year, "" when none
    filterMonth,  \* page state: selected month, "" when none
    glist,        \* the list handed to groupByDate
    gout,         \* the value groupByDate returned
    gdone,        \* whether groupByDate has returned
    error,        \* page state: the error message shown, null when none
    success       \* page state: the success message shown, null when none

vars == <<store, nextId, req, out,
          entries, filterMode, filterYear, filterMonth, glist, gout, gdone,
          error, success>>

serverVars == <<store, nextId, req, out>>
pageVars   == <<entries, filterMode, filterYear, filterMonth>>
groupVars  == <<glist, gout, gdone>>
messageVars == <<error, success>>

-----------------------------------------------------------------------------
(* Bounds of the model *)

MaxEntries == 2     \* rows ever inserted
NumConns   == 2     \* connections with a creation request in flight
MaxLen     == 3     \* entries in a list handed to groupByDate

(* Program constants *)

MAX_HOURS_PER_DAY == 24

PROJECTS == {"Viso Internal", "Client A", "Client B", "Personal Development"}

-----------------------------------------------------------------------------
(* Characters and strings *)

Digits == <<"0", "1", "2", "3", "4", "5", "6", "7", "8", "9">>

IsDigit(c) == \E i \in 1..10 : Digits[i] = c

DigitVal(c) == (CHOOSE i \in 1..10 : Digits[i] = c) - 1

\* UTF-16 code unit of the characters the model uses
CharCode(c) ==
    CASE c = " " -> 32
      [] c = "-" -> 45
      [] c = "." -> 46
      [] IsDigit(c) -> 48 + DigitVal(c)
      [] c = ":" -> 58
      [] c = "T" -> 84
      [] c = "Z" -> 90
      [] c = "a" -> 97
      [] OTHER -> 120

RECURSIVE StrLess(_, _)
\* a < b on strings: by code units, a proper prefix being smaller
StrLess(a, b) ==
    IF b = <<>> THEN FALSE
    ELSE IF a = <<>> THEN TRUE
    ELSE IF CharCode(Head(a)) # CharCode(Head(b))
         THEN CharCode(Head(a)) < CharCode(Head(b))
         ELSE StrLess(Tail(a), Tail(b))

\* String.prototype.slice(from, to) with 0 <= from <= to
Slice(s, from, to) ==
    SubSeq(s, from + 1, IF to < Len(s) THEN to ELSE Len(s))

RECURSIVE Pow10(_)
Pow10(n) == IF n = 0 THEN 1 ELSE 10 * Pow10(n - 1)

\* String(n).padStart(w, "0") for 0 <= n < 10^w
Pad(n, w) == [i \in 1..w |-> Digits[((n \div Pow10(w - i)) % 10) + 1]]

RECURSIVE ParseDigits(_)
ParseDigits(s) ==
    IF s = <<>> THEN 0
    ELSE 10 * ParseDigits(SubSeq(s, 1, Len(s) - 1)) + DigitVal(s[Len(s)])

WhiteSpace == {" "}

RECURSIVE TrimStart(_)
TrimStart(s) ==
    IF s # <<>> /\ Head(s) \in WhiteSpace THEN TrimStart(Tail(s)) ELSE s

RECURSIVE TrimEnd(_)
TrimEnd(s) ==
    IF s # <<>> /\ s[Len(s)] \in WhiteSpace
    THEN TrimEnd(SubSeq(s, 1, Len(s) - 1)) ELSE s

\* String.prototype.trim
Trim(s) == TrimEnd(TrimStart(s))

-----------------------------------------------------------------------------
(* Instants: JavaScript Date values, as <<day since 1970-01-01, ms of day>> *)

InvalidDate == [day |-> -1, ms |-> -1]

IsLeap(y) == (y % 4 = 0 /\ y % 100 # 0) \/ y % 400 = 0

DaysInMonth(y, m) ==
    IF m \in {4, 6, 9, 11} THEN 30
    ELSE IF m = 2 THEN (IF IsLeap(y) THEN 29 ELSE 28)
    ELSE 31

DayFromYear(y) ==
    365 * (y - 1970) + ((y - 1969) \div 4) - ((y - 1901) \div 100)
        + ((y - 1601) \div 400)

RECURSIVE DaysBeforeMonth(_, _)
DaysBeforeMonth(y, m) ==
    IF m = 1 THEN 0 ELSE DaysBeforeMonth(y, m - 1) + DaysInMonth(y, m - 1)

\* MakeDay: the day number of day d of month m, d running past the month's end
MakeDay(y, m, d) == DayFromYear(y) + DaysBeforeMonth(y, m) + (d - 1)

YearFromDay(n) ==
    CHOOSE y \in (1970 + (n \div 366))..(1970 + (n \div 365)) :
        DayFromYear(y) <= n /\ n < DayFromYear(y + 1)

MonthFromDay(n) ==
    LET y == YearFromDay(n)
    IN  CHOOSE m \in 1..12 :
            /\ MakeDay(y, m, 1) <= n
            /\ n < MakeDay(y, m, 1) + DaysInMonth(y, m)

DateFromDay(n) == n - MakeDay(YearFromDay(n), MonthFromDay(n), 1) + 1

\* new Date(`${date}T<time>Z`) for a date that matched /^\d{4}-\d{2}-\d{2}$/:
\* the engine takes months 01..12 and days 01..31 and lets the day run past
\* the end of a shorter month; anything else is an Invalid Date
NewDate(date, msOfDay) ==
    LET y == ParseDigits(Slice(date, 0, 4))
        m == ParseDigits(Slice(date, 5, 7))
        d == ParseDigits(Slice(date, 8, 10))
    IN  IF m \in 1..12 /\ d \in 1..31
        THEN [day |-> MakeDay(y, m, d), ms |-> msOfDay]
        ELSE InvalidDate

InstantLeq(a, b) == a.day < b.day \/ (a.day = b.day /\ a.ms <= b.ms)

\* Date.prototype.toISOString, as JSON serialisation writes a Date
ToISOString(t) ==
    Pad(YearFromDay(t.day), 4) \o <<"-">> \o Pad(MonthFromDay(t.day), 2)
        \o <<"-">> \o Pad(DateFromDay(t.day), 2) \o <<"T">>
        \o Pad(t.ms \div 3600000, 2) \o <<":">>
        \o Pad((t.ms \div 60000) % 60, 2) \o <<":">>
        \o Pad((t.ms \div 1000) % 60, 2) \o <<".">> \o Pad(t.ms % 1000, 3)
        \o <<"Z">>

\* "YYYY-MM-DD" of a calendar day, as a caller writes it
YMD(y, m, d) == Pad(y, 4) \o <<"-">> \o Pad(m, 2) \o <<"-">> \o Pad(d, 2)

-----------------------------------------------------------------------------
(* JavaScript values of a JSON field that should hold a number *)

Num(n) == [k |-> "num", v |-> n]
NaN == [k |-> "nan", v |-> 0]
PosInf == [k |-> "inf", v |-> 1]
NegInf == [k |-> "inf", v |-> -1]
Undefined == [k |-> "undef", v |-> 0]
StrValue == [k |-> "str", v |-> 0]

-----------------------------------------------------------------------------
(* apps/api: validation *)

\* /^\d{4}-\d{2}-\d{2}$/
DateRegex(s) ==
    /\ Len(s) = 10
    /\ \A i \in {1, 2, 3, 4, 6, 7, 9, 10} : IsDigit(s[i])
    /\ s[5] = "-"
    /\ s[8] = "-"

\* CreateEntrySchema.safeParse(body).success
CreateEntrySchema(body) ==
    /\ DateRegex(body.date)
    /\ body.project \in PROJECTS
    /\ body.hours.k = "num" /\ body.hours.v > 0
    /\ Len(body.description) >= 1

-----------------------------------------------------------------------------
(* apps/api: the entry store *)

RECURSIVE SumRows(_)
\* SUM(hours) over a set of rows
SumRows(rows) ==
    IF rows = {} THEN 0
    ELSE LET e == CHOOSE x \in rows : TRUE
         IN  e.hours + SumRows(rows \ {e})

\* AggregateHours with gt/lt written for gte/lte
AggregateHoursExclusive(rows, dayStart, dayEnd) ==
    SumRows({e \in rows : ~InstantLeq(e.date, dayStart) /\ ~InstantLeq(dayEnd, e.date)})

\* prisma.timeEntry.aggregate({ where: { date: { gte, lte } }, _sum: { hours } })
\* followed by `agg._sum.hours ?? 0`
AggregateHours(rows, dayStart, dayEnd) ==
    SumRows({e \in rows : InstantLeq(dayStart, e.date) /\ InstantLeq(e.date, dayEnd)})

\* the row prisma.timeEntry.create persists: id and createdAt come from the store
NewRow(id, now, data) ==
    [id |-> id, date |-> data.date, project |-> data.project,
     hours |-> data.hours, description |-> data.description,
     createdAt |-> now]

\* the instant the store's clock shows when it inserts the row numbered id: the
\* clock of the model gains a millisecond with every second row, so that rows
\* are created both within one millisecond and in different ones
Now(id) == [day |-> MakeDay(2026, 3, 3), ms |-> id \div 2]

-----------------------------------------------------------------------------
(* apps/api: responses *)

Lit(s) == [part |-> "lit", text |-> s, num |-> 0]
NumPart(n) == [part |-> "num", text |-> "", num |-> n]
StrPart(s) == [part |-> "str", text |-> s, num |-> 0]

\* the handler's promise rejected: the handler sends no answer of its own
\* (Express 4 leaves the request open, Express 5 answers 500)
Unhandled == [status |-> -1, message |-> <<>>, created |-> {}]

ValidationError ==
    [status |-> 400, message |-> <<Lit("Validation error")>>, created |-> {}]

CapExceeded ==
    [status |-> 400,
     message |-> <<Lit("Max "), NumPart(MAX_HOURS_PER_DAY),
                   Lit(" hours per day exceeded")>>,
     created |-> {}]

Created(row) == [status |-> 201, message |-> <<>>, created |-> {row}]

InvalidId ==
    [status |-> 400, message |-> <<Lit("Invalid id")>>, created |-> {}]

NoContent == [status |-> 204, message |-> <<>>, created |-> {}]

EntryNotFound ==
    [status |-> 404, message |-> <<Lit("Entry not found")>>, created |-> {}]

\* what `out` holds: the request (a creation body or a deletion id), whether the
\* handler queried the stored entries, and the response
NoOutput == [op |-> "none", queried |-> FALSE]
PostOutput(body, queried, res) ==
    [op |-> "post", body |-> body, queried |-> queried, res |-> res]
DeleteOutput(id, res) ==
    [op |-> "delete", id |-> id, queried |-> TRUE, res |-> res]

Idle == [pc |-> "idle"]

\* null, where the page keeps a message
NoMessage == <<>>

-----------------------------------------------------------------------------
(* apps/api: POST /entries *)

Conns == 1..NumConns

InFlight == {c \in Conns : req[c].pc = "agg"}

\* PostEntries with the sum read before the body is validated
PostEntriesReadFirst(c, body) ==
    /\ req[c].pc = "idle"
    /\ LET shaped   == DateRegex(body.date)
           dayStart == IF shaped THEN NewDate(body.date, 0) ELSE InvalidDate
           dayEnd   == IF shaped THEN NewDate(body.date, 86399999) ELSE InvalidDate
           existing == AggregateHours(store, dayStart, dayEnd)
       IN  IF ~CreateEntrySchema(body)
           THEN /\ out' = PostOutput(body, TRUE, ValidationError)
                /\ UNCHANGED req
           ELSE IF dayStart = InvalidDate
                THEN /\ out' = PostOutput(body, FALSE, Unhandled)
                     /\ UNCHANGED req
                ELSE /\ \/ nextId + Cardinality(InFlight) <= MaxEntries
                        \/ existing + body.hours.v > MAX_HOURS_PER_DAY
                     /\ out' = NoOutput
                     /\ req' = [req EXCEPT ![c] =
                            [pc |-> "agg", body |-> body, dayStart |-> dayStart,
                             existing |-> existing]]
    /\ UNCHANGED <<store, nextId>>

\* lines 32-44: validate, build the day range, read the day's sum
PostEntries(c, body) ==
    /\ req[c].pc = "idle"
    /\ IF ~CreateEntrySchema(body)
       THEN /\ out' = PostOutput(body, FALSE, ValidationError)
            /\ UNCHANGED req
       ELSE LET dayStart == NewDate(body.date, 0)
                dayEnd   == NewDate(body.date, 86399999)
            IN  IF dayStart = InvalidDate
                THEN \* the query is refused for its invalid Date: the handler throws
                     /\ out' = PostOutput(body, FALSE, Unhandled)
                     /\ UNCHANGED req
                ELSE LET existing == AggregateHours(store, dayStart, dayEnd)
                     IN  \* the table of the model has room for the row, if one is inserted
                         /\ \/ nextId + Cardinality(InFlight) <= MaxEntries
                            \/ existing + body.hours.v > MAX_HOURS_PER_DAY
                         /\ out' = NoOutput
                         /\ req' = [req EXCEPT ![c] =
                                [pc |-> "agg", body |-> body, dayStart |-> dayStart,
                                 existing |-> existing]]
    /\ UNCHANGED <<store, nextId>>

\* PostInsert with the cap check leaving out the sum read
PostInsertNoSum(c) ==
    /\ req[c].pc = "agg"
    /\ LET r == req[c]
           hours == r.body.hours.v
       IN  IF hours > MAX_HOURS_PER_DAY
           THEN /\ out' = PostOutput(r.body, TRUE, CapExceeded)
                /\ UNCHANGED <<store, nextId>>
           ELSE LET row == NewRow(nextId, Now(nextId),
                               [date |-> r.dayStart, project |-> r.body.project,
                                hours |-> hours,
                                description |-> r.body.description])
                IN  /\ store' = store \cup {row}
                    /\ nextId' = nextId + 1
                    /\ out' = PostOutput(r.body, TRUE, Created(row))
    /\ req' = [req EXCEPT ![c] = Idle]

\* lines 46-55: the cap check, then the insert
PostInsert(c) ==
    /\ req[c].pc = "agg"
    /\ LET r == req[c]
           hours == r.body.hours.v
       IN  IF r.existing + hours > MAX_HOURS_PER_DAY
           THEN /\ out' = PostOutput(r.body, TRUE, CapExceeded)
                /\ UNCHANGED <<store, nextId>>
           ELSE LET row == NewRow(nextId, Now(nextId),
                               [date |-> r.dayStart, project |-> r.body.project,
                                hours |-> hours,
                                description |-> r.body.description])
                IN  /\ store' = store \cup {row}
                    /\ nextId' = nextId + 1
                    /\ out' = PostOutput(r.body, TRUE, Created(row))
    /\ req' = [req EXCEPT ![c] = Idle]

-----------------------------------------------------------------------------
(* apps/api: DELETE /entries/:id *)

\* DeleteEntry deleting every row up to the id (`lte` written for equality)
DeleteEntryUpTo(id) ==
    /\ IF ~(id.k = "num" /\ id.v > 0)
       THEN /\ out' = DeleteOutput(id, InvalidId)
            /\ UNCHANGED store
       ELSE IF \E e \in store : e.id = id.v
            THEN /\ store' = {e \in store : e.id > id.v}
                 /\ out' = DeleteOutput(id, NoContent)
            ELSE /\ out' = DeleteOutput(id, EntryNotFound)
                 /\ UNCHANGED store
    /\ UNCHANGED <<nextId, req>>

\* id is Number(req.params.id)
DeleteEntry(id) ==
    /\ IF ~(id.k = "num" /\ id.v > 0)
       THEN /\ out' = DeleteOutput(id, InvalidId)
            /\ UNCHANGED store
       ELSE IF \E e \in store : e.id = id.v
            THEN /\ store' = {e \in store : e.id # id.v}
                 /\ out' = DeleteOutput(id, NoContent)
            ELSE /\ out' = DeleteOutput(id, EntryNotFound)
                 /\ UNCHANGED store
    /\ UNCHANGED <<nextId, req>>

-----------------------------------------------------------------------------
(* apps/api: GET /entries *)

\* a row comes before another under orderBy [{ date: "desc" }, { id: "desc" }]
RowBefore(a, b) ==
    \/ ~InstantLeq(a.date, b.date)
    \/ (a.date = b.date /\ a.id > b.id)

RECURSIVE FindMany(_)
\* prisma.timeEntry.findMany with that order
FindMany(rows) ==
    IF rows = {} THEN <<>>
    ELSE LET first == CHOOSE a \in rows : \A b \in rows \ {a} : RowBefore(a, b)
         IN  <<first>> \o FindMany(rows \ {first})

\* res.json of a row, as the page's TimeEntry type reads it
ToJson(row) ==
    [id |-> row.id, date |-> ToISOString(row.date), project |-> row.project,
     hours |-> Num(row.hours), description |-> row.description,
     createdAt |-> ToISOString(row.createdAt)]

GetEntries(rows) ==
    LET list == FindMany(rows) IN [i \in 1..Len(list) |-> ToJson(list[i])]

-----------------------------------------------------------------------------
(* JavaScript arithmetic on the values above *)

\* Number(x)
ToNumber(x) == IF x.k \in {"undef", "str"} THEN NaN ELSE x

\* x || 0 for a number x
OrZero(x) == IF x.k = "nan" \/ (x.k = "num" /\ x.v = 0) THEN Num(0) ELSE x

\* a + b for numbers
JsAdd(a, b) ==
    IF a.k = "nan" \/ b.k = "nan" THEN NaN
    ELSE IF a.k = "inf" /\ b.k = "inf" THEN (IF a.v = b.v THEN a ELSE NaN)
    ELSE IF a.k = "inf" THEN a
    ELSE IF b.k = "inf" THEN b
    ELSE Num(a.v + b.v)

\* Number.isFinite(x)
IsFinite(x) == x.k = "num"

-----------------------------------------------------------------------------
(* Array.prototype.sort as the engine runs it on an array of fewer than 64    *)
(* elements: the leading run is found (and reversed when strictly             *)
(* descending), the rest is added by binary insertion. The elements are       *)
(* <<key, value>> pairs and the comparator is the page's                      *)
(* (a, b) => (a.key < b.key ? 1 : -1).                                        *)

\* the comparator of an ascending sort
CompareAscending(a, b) == IF StrLess(a[1], b[1]) THEN -1 ELSE 1

Compare(a, b) == IF StrLess(a[1], b[1]) THEN 1 ELSE -1

RECURSIVE RunEnd(_, _, _)
\* the last index of the run that starts at 1, idx being the next to look at
RunEnd(arr, idx, descending) ==
    IF idx > Len(arr) THEN idx - 1
    ELSE LET order == Compare(arr[idx], arr[idx - 1])
         IN  IF (descending /\ order >= 0) \/ (~descending /\ order < 0)
             THEN idx - 1
             ELSE RunEnd(arr, idx + 1, descending)

Reverse(arr) == [i \in 1..Len(arr) |-> arr[Len(arr) + 1 - i]]

RECURSIVE BinarySearch(_, _, _, _)
\* where the pivot goes among arr[left..right-1]
BinarySearch(arr, pivot, left, right) ==
    IF left >= right THEN left
    ELSE LET mid == left + ((right - left) \div 2)
         IN  IF Compare(pivot, arr[mid]) < 0
             THEN BinarySearch(arr, pivot, left, mid)
             ELSE BinarySearch(arr, pivot, mid + 1, right)

RECURSIVE BinaryInsertionSort(_, _)
\* arr[1..start-1] is sorted; insert arr[start], arr[start+1], ...
BinaryInsertionSort(arr, start) ==
    IF start > Len(arr) THEN arr
    ELSE LET pivot == arr[start]
             left  == BinarySearch(arr, pivot, 1, start)
         IN  BinaryInsertionSort(
                 SubSeq(arr, 1, left - 1) \o <<pivot>>
                     \o SubSeq(arr, left, start - 1)
                     \o SubSeq(arr, start + 1, Len(arr)),
                 start + 1)

ArraySort(arr) ==
    IF Len(arr) < 2 THEN arr
    ELSE LET descending == Compare(arr[2], arr[1]) < 0
             run == RunEnd(arr, 3, descending)
             made == IF descending
                     THEN Reverse(SubSeq(arr, 1, run)) \o SubSeq(arr, run + 1, Len(arr))
                     ELSE arr
         IN  BinaryInsertionSort(made, run + 1)

-----------------------------------------------------------------------------
(* apps/web: the pure helpers of the page *)

\* dateKeyFromIso cutting after the month
dateKeyFromIsoMonth(isoOrDate) ==
    IF Len(isoOrDate) >= 7 THEN Slice(isoOrDate, 0, 7) ELSE isoOrDate

dateKeyFromIso(isoOrDate) ==
    IF Len(isoOrDate) >= 10 THEN Slice(isoOrDate, 0, 10) ELSE isoOrDate

toYYYYMM(isoOrDate) ==
    LET d == dateKeyFromIso(isoOrDate)
    IN  [yyyy |-> Slice(d, 0, 4), mm |-> Slice(d, 5, 7)]

RECURSIVE sumHours(_)
\* entries.reduce((sum, e) => sum + (Number(e.hours) || 0), 0)
sumHours(list) ==
    IF list = <<>> THEN Num(0)
    ELSE JsAdd(sumHours(SubSeq(list, 1, Len(list) - 1)),
               OrZero(ToNumber(list[Len(list)].hours)))

RECURSIVE MapKeys(_)
\* the keys of the Map, in the order they were first set
MapKeys(list) ==
    IF list = <<>> THEN <<>>
    ELSE LET before == MapKeys(SubSeq(list, 1, Len(list) - 1))
             key == dateKeyFromIso(list[Len(list)].date)
         IN  IF \E i \in 1..Len(before) : before[i] = key
             THEN before ELSE Append(before, key)

\* MapGet with each map.set replacing the list by the entry alone
MapGetLast(list, key) ==
    LET l == SelectSeq(list, LAMBDA e : dateKeyFromIso(e.date) = key)
    IN  IF l = <<>> THEN l ELSE <<l[Len(l)]>>

\* map.get(key): the entries of that key, in the order they came
MapGet(list, key) == SelectSeq(list, LAMBDA e : dateKeyFromIso(e.date) = key)

groupByDate(list) ==
    LET keys == MapKeys(list)
        group(date) ==
            LET l == MapGet(list, date)
                keyed == ArraySort([i \in 1..Len(l) |-> <<l[i].createdAt, l[i]>>])
                sorted == [i \in 1..Len(keyed) |-> keyed[i][2]]
            IN  [date |-> date, entries |-> sorted, total |-> sumHours(sorted)]
        groups == ArraySort([i \in 1..Len(keys) |-> <<keys[i], group(keys[i])>>])
    IN  [i \in 1..Len(groups) |-> groups[i][2]]

RECURSIVE SumTotals(_)
\* grouped.reduce((sum, g) => sum + g.total, 0)
SumTotals(groups) ==
    IF groups = <<>> THEN Num(0)
    ELSE JsAdd(SumTotals(SubSeq(groups, 1, Len(groups) - 1)),
               groups[Len(groups)].total)

-----------------------------------------------------------------------------
(* Requests the callers send *)

Malformed == <<"2", "0", "2", "6", "-", "1", "-", "2", "9">>

\* creation requests that differ in date and hours
CapBodies ==
    [date : {YMD(2026, 1, 29), YMD(2026, 3, 2), YMD(2026, 2, 30), YMD(2026, 13, 1)},
     project : {"Client A"}, hours : {Num(10), Num(14)}, description : {<<"a">>}]

BaseBody ==
    [date |-> YMD(2026, 1, 29), project |-> "Client A", hours |-> Num(10),
     description |-> <<"a">>]

\* creation requests that differ from BaseBody in one field
ShapeBodies ==
    {[BaseBody EXCEPT !.date = Malformed]}
    \cup {[BaseBody EXCEPT !.project = p] : p \in {"Client B", "Other"}}
    \cup {[BaseBody EXCEPT !.hours = h] : h \in {Num(0), Num(-1), StrValue}}
    \cup {[BaseBody EXCEPT !.description = d] : d \in {<<>>, <<" ">>}}

Bodies == CapBodies \cup ShapeBodies

Frac == [k |-> "frac", v |-> 1]

ReqIds == {Num(i) : i \in 0..(MaxEntries + 1)} \cup {NaN, Frac}

-----------------------------------------------------------------------------
(* The API alone *)

\* an empty table, no request in flight, the page as it first renders
Init ==
    /\ store = {}
    /\ nextId = 1
    /\ req = [c \in Conns |-> Idle]
    /\ out = NoOutput
    /\ entries = <<>>
    /\ filterMode = "all"
    /\ filterYear = <<>>
    /\ filterMonth = <<>>
    /\ error = NoMessage
    /\ success = NoMessage
    /\ glist = <<>>
    /\ gout = <<>>
    /\ gdone = FALSE

\* a creation request that starts when no other is between its read and its insert
PostEntriesAlone(c, body) ==
    /\ InFlight = {}
    /\ PostEntries(c, body)

\* a deletion request that arrives when no creation is in flight
DeleteEntryAlone(id) ==
    /\ InFlight = {}
    /\ DeleteEntry(id)

NextSeq ==
    \/ \E c \in Conns, body \in Bodies :
          PostEntriesAlone(c, body) /\ UNCHANGED <<pageVars, groupVars, messageVars>>
    \/ \E c \in Conns : PostInsert(c) /\ UNCHANGED <<pageVars, groupVars, messageVars>>
    \/ \E id \in ReqIds : DeleteEntryAlone(id) /\ UNCHANGED <<pageVars, groupVars, messageVars>>

\* requests handled one at a time
Spec == Init /\ [][NextSeq]_vars

\* the requests of the concurrent callers
ConcBodies ==
    [date : {YMD(2026, 1, 29), YMD(2026, 3, 2)}, project : {"Client A"},
     hours : {Num(10), Num(14)}, description : {<<"a">>}]

ConcIds == {Num(i) : i \in 1..MaxEntries}

NextConc ==
    \/ \E c \in Conns, body \in ConcBodies :
          PostEntries(c, body) /\ UNCHANGED <<pageVars, groupVars, messageVars>>
    \/ \E c \in Conns : PostInsert(c) /\ UNCHANGED <<pageVars, groupVars, messageVars>>
    \/ \E id \in ConcIds : DeleteEntry(id) /\ UNCHANGED <<pageVars, groupVars, messageVars>>

\* requests whose awaits interleave
SpecConc == Init /\ [][NextConc]_vars

-----------------------------------------------------------------------------
(* groupByDate alone *)

GroupDates ==
    {ToISOString(NewDate(YMD(2026, 1, 29), 0)), ToISOString(NewDate(YMD(2026, 3, 2), 0))}

GroupHours == {Num(1), Num(2), NaN, PosInf}

GroupTimes == {ToISOString([day |-> MakeDay(2026, 3, 3), ms |-> t]) : t \in 0..1}

\* the list of n entries with these dates, hours and times, an entry's id being
\* its place in the list
GroupList(n, d, h, t) ==
    [i \in 1..n |->
        [id |-> i, date |-> d[i], project |-> "Client A", hours |-> h[i],
         description |-> <<"a">>, createdAt |-> t[i]]]

\* any list of up to MaxLen entries, not yet grouped
InitGroup ==
    /\ \E n \in 0..MaxLen :
          \E d \in [1..n -> GroupDates], h \in [1..n -> GroupHours],
             t \in [1..n -> GroupTimes] : glist = GroupList(n, d, h, t)
    /\ gout = <<>>
    /\ gdone = FALSE
    /\ store = {}
    /\ nextId = 1
    /\ req = [c \in Conns |-> Idle]
    /\ out = NoOutput
    /\ entries = <<>>
    /\ filterMode = "all"
    /\ filterYear = <<>>
    /\ filterMonth = <<>>
    /\ error = NoMessage
    /\ success = NoMessage

\* the page calls groupByDate on the list
ApplyGroupByDate ==
    /\ ~gdone
    /\ gout' = groupByDate(glist)
    /\ gdone' = TRUE
    /\ UNCHANGED <<glist, serverVars, pageVars, messageVars>>

NextGroup == ApplyGroupByDate

SpecGroup == InitGroup /\ [][NextGroup]_vars

-----------------------------------------------------------------------------
(* groupByDate on lists that differ in dates and creation times only *)

OrderDates ==
    {ToISOString(NewDate(YMD(2025, 12, 31), 0)),
     ToISOString(NewDate(YMD(2026, 1, 29), 0)),
     ToISOString(NewDate(YMD(2026, 3, 2), 0))}

OrderTimes == {ToISOString([day |-> MakeDay(2026, 3, 3), ms |-> t]) : t \in 0..2}

\* any list of up to MaxLen entries of one hour each, not yet grouped
InitOrder ==
    /\ \E n \in 0..MaxLen :
          \E d \in [1..n -> OrderDates], t \in [1..n -> OrderTimes] :
             glist = GroupList(n, d, [i \in 1..n |-> Num(1)], t)
    /\ gout = <<>>
    /\ gdone = FALSE
    /\ store = {}
    /\ nextId = 1
    /\ req = [c \in Conns |-> Idle]
    /\ out = NoOutput
    /\ entries = <<>>
    /\ filterMode = "all"
    /\ filterYear = <<>>
    /\ filterMonth = <<>>
    /\ error = NoMessage
    /\ success = NoMessage

SpecOrder == InitOrder /\ [][NextGroup]_vars

-----------------------------------------------------------------------------
(* apps/web: the page's derived values (its useMemo hooks) *)

RECURSIVE Distinct(_)
\* the values of a Set filled from a list, in the order they were first added
Distinct(list) ==
    IF list = <<>> THEN <<>>
    ELSE LET before == Distinct(SubSeq(list, 1, Len(list) - 1))
             x == list[Len(list)]
         IN  IF \E i \in 1..Len(before) : before[i] = x
             THEN before ELSE Append(before, x)

RECURSIVE DefaultSort(_)
\* Array.prototype.sort() without a comparator, on distinct strings
DefaultSort(list) ==
    IF list = <<>> THEN <<>>
    ELSE LET i == CHOOSE i \in 1..Len(list) :
                     \A j \in 1..Len(list) : ~StrLess(list[j], list[i])
         IN  <<list[i]>>
                 \o DefaultSort(SubSeq(list, 1, i - 1) \o SubSeq(list, i + 1, Len(list)))

availableYears ==
    LET years == Distinct([i \in 1..Len(entries) |-> toYYYYMM(entries[i].date).yyyy])
        sorted == ArraySort([i \in 1..Len(years) |-> <<years[i], years[i]>>])
    IN  [i \in 1..Len(sorted) |-> sorted[i][2]]

availableMonthsForYear ==
    IF filterYear = <<>> THEN <<>>
    ELSE LET ofYear == SelectSeq(entries,
                           LAMBDA e : toYYYYMM(e.date).yyyy = filterYear)
         IN  DefaultSort(Distinct([i \in 1..Len(ofYear) |->
                                      toYYYYMM(ofYear[i].date).mm]))

\* filteredEntries with the month left out of the comparison
filteredEntriesByYear ==
    IF filterMode = "all" THEN entries
    ELSE IF filterYear = <<>> \/ filterMonth = <<>> THEN entries
    ELSE SelectSeq(entries, LAMBDA e : toYYYYMM(e.date).yyyy = filterYear)

filteredEntries ==
    IF filterMode = "all" THEN entries
    ELSE IF filterYear = <<>> \/ filterMonth = <<>> THEN entries
    ELSE SelectSeq(entries,
             LAMBDA e : /\ toYYYYMM(e.date).yyyy = filterYear
                        /\ toYYYYMM(e.date).mm = filterMonth)

grouped == groupByDate(filteredEntries)

grandTotal == SumTotals(grouped)

-----------------------------------------------------------------------------
(* apps/web: the page's effects and handlers *)

\* useEffect of lines 143-145 has something to do
YearEffectPending == Len(availableYears) > 0 /\ filterYear = <<>>

\* useEffect of lines 157-161 has something to do
MonthEffectPending ==
    filterYear # <<>> /\ Len(availableMonthsForYear) > 0 /\ filterMonth = <<>>

\* the effects have run: the page takes the next event
Settled == ~YearEffectPending /\ ~MonthEffectPending

EffectYear ==
    /\ YearEffectPending
    /\ filterYear' = availableYears[1]
    /\ UNCHANGED <<messageVars, entries, filterMode, filterMonth>>

EffectMonth ==
    /\ MonthEffectPending
    /\ filterMonth' = availableMonthsForYear[1]
    /\ UNCHANGED <<messageVars, entries, filterMode, filterYear>>

\* load(): setError(null), getEntries() resolves and setEntries stores the list
Load ==
    /\ Settled
    /\ error' = NoMessage
    /\ entries' = GetEntries(store)
    /\ UNCHANGED <<success, filterMode, filterYear, filterMonth>>

\* the option a <select value={value}> shows: the one with that value, or the
\* first when none has it
Shown(options, value) ==
    IF \E i \in 1..Len(options) : options[i] = value THEN value ELSE options[1]

\* the filter mode <select> changes
SetFilterMode(mode) ==
    /\ Settled
    /\ mode # filterMode
    /\ filterMode' = mode
    /\ UNCHANGED <<messageVars, entries, filterYear, filterMonth>>

\* the year <select>, drawn in month mode, changes to another of its options
SetFilterYear(y) ==
    /\ Settled
    /\ filterMode = "month"
    /\ \E i \in 1..Len(availableYears) : availableYears[i] = y
    /\ y # Shown(availableYears, filterYear)
    /\ filterYear' = y
    /\ filterMonth' = <<>>
    /\ UNCHANGED <<messageVars, entries, filterMode>>

\* the month <select>, drawn in month mode, changes to another of its options
SetFilterMonth(mm) ==
    /\ Settled
    /\ filterMode = "month"
    /\ \E i \in 1..Len(availableMonthsForYear) : availableMonthsForYear[i] = mm
    /\ mm # Shown(availableMonthsForYear, filterMonth)
    /\ filterMonth' = mm
    /\ UNCHANGED <<messageVars, entries, filterMode, filterYear>>

-----------------------------------------------------------------------------
(* apps/web: the entry form and the delete button. The fields of the form are *)
(* what the user has typed when the button is clicked.                        *)

\* Number(s) for the text of the hours field: digits, or nothing
NumberOfString(s) ==
    IF s = <<>> THEN Num(0)
    ELSE IF \A i \in 1..Len(s) : IsDigit(s[i]) THEN Num(ParseDigits(s))
    ELSE NaN

\* a > n for a number a and a finite n
JsGreater(a, n) == (a.k = "num" /\ a.v > n) \/ a = PosInf

\* grouped.find((g) => g.date === date)?.total ?? 0
currentDayTotal(date) ==
    LET found == SelectSeq(grouped, LAMBDA g : g.date = date)
    IN  IF found = <<>> THEN Num(0) ELSE found[1].total

AllFieldsRequired == <<Lit("All fields are required.")>>

HoursMustBePositive == <<Lit("Hours must be a positive number.")>>

WouldExceed(date) ==
    <<Lit("This would exceed "), NumPart(MAX_HOURS_PER_DAY), Lit(" hours for "),
      StrPart(date), Lit(".")>>

Saved == <<Lit("Saved!")>>

Deleted == <<Lit("Deleted!")>>

\* the response of POST /entries when the handler runs from the request to the
\* response with no other request in between
PostResponse(rows, id, body) ==
    IF ~CreateEntrySchema(body) THEN ValidationError
    ELSE LET dayStart == NewDate(body.date, 0)
             dayEnd   == NewDate(body.date, 86399999)
         IN  IF dayStart = InvalidDate THEN Unhandled
             ELSE IF AggregateHours(rows, dayStart, dayEnd) + body.hours.v
                         > MAX_HOURS_PER_DAY
                  THEN CapExceeded
                  ELSE Created(NewRow(id, Now(id),
                           [date |-> dayStart, project |-> body.project,
                            hours |-> body.hours.v,
                            description |-> body.description]))

\* the Save button: the checks of the form, then createEntry and, when the API
\* answers 201, load
OnSave(date, project, hours, description) ==
    /\ Settled
    /\ InFlight = {}
    /\ LET hoursNum == NumberOfString(hours)
       IN  IF date = <<>> \/ Trim(description) = <<>>
           THEN /\ error' = AllFieldsRequired
                /\ success' = NoMessage
                /\ UNCHANGED <<serverVars, entries>>
           ELSE IF ~IsFinite(hoursNum) \/ hoursNum.v <= 0
           THEN /\ error' = HoursMustBePositive
                /\ success' = NoMessage
                /\ UNCHANGED <<serverVars, entries>>
           ELSE IF JsGreater(JsAdd(currentDayTotal(date), hoursNum), MAX_HOURS_PER_DAY)
           THEN /\ error' = WouldExceed(date)
                /\ success' = NoMessage
                /\ UNCHANGED <<serverVars, entries>>
           ELSE LET payload == [date |-> date, project |-> project,
                                hours |-> hoursNum,
                                description |-> Trim(description)]
                    res == PostResponse(store, nextId, payload)
                IN  \* the table of the model has room for the row, if one is inserted
                    /\ res.created = {} \/ nextId <= MaxEntries
                    /\ store' = store \cup res.created
                    /\ nextId' = nextId + Cardinality(res.created)
                    /\ out' = PostOutput(payload,
                                  res \notin {ValidationError, Unhandled}, res)
                    /\ UNCHANGED req
                    /\ IF res.status = 201
                       THEN /\ success' = Saved
                            /\ error' = NoMessage
                            /\ entries' = GetEntries(store')
                       ELSE /\ error' = res.message
                            /\ success' = NoMessage
                            /\ UNCHANGED entries
    /\ UNCHANGED <<filterMode, filterYear, filterMonth>>

\* the Delete button of a listed entry: confirm(), prompt(), then deleteEntry
\* and, when the API answers 204, load
OnDelete(id, ok, typed) ==
    /\ Settled
    /\ InFlight = {}
    /\ \E i \in 1..Len(grouped) :
          \E j \in 1..Len(grouped[i].entries) : grouped[i].entries[j].id = id
    /\ IF ~ok \/ typed # "DELETE"
       THEN /\ error' = NoMessage
            /\ success' = NoMessage
            /\ UNCHANGED <<serverVars, entries>>
       ELSE /\ DeleteEntry(Num(id))
            /\ IF out'.res.status = 204
               THEN /\ success' = Deleted
                    /\ error' = NoMessage
                    /\ entries' = GetEntries(store')
               ELSE /\ error' = out'.res.message
                    /\ success' = NoMessage
                    /\ UNCHANGED entries
    /\ UNCHANGED <<filterMode, filterYear, filterMonth>>

-----------------------------------------------------------------------------
(* The page with the API behind it *)

\* the creation requests that reach the API while the page is open
PageBodies ==
    {[date |-> YMD(2025, 12, 31), project |-> "Client A", hours |-> Num(10),
      description |-> <<"a">>],
     [date |-> YMD(2026, 1, 29), project |-> "Client A", hours |-> Num(10),
      description |-> <<"a">>],
     [date |-> YMD(2026, 3, 2), project |-> "Client B", hours |-> Num(14),
      description |-> <<"a">>]}

PageIds == {Num(i) : i \in 1..MaxEntries}

Years == {Pad(2025, 4), Pad(2026, 4)}

Months == {Pad(m, 2) : m \in 1..12}

NextPage ==
    \/ \E c \in Conns, body \in PageBodies :
          PostEntriesAlone(c, body) /\ UNCHANGED <<pageVars, groupVars, messageVars>>
    \/ \E c \in Conns : PostInsert(c) /\ UNCHANGED <<pageVars, groupVars, messageVars>>
    \/ \E id \in PageIds : DeleteEntryAlone(id) /\ UNCHANGED <<pageVars, groupVars, messageVars>>
    \/ Load /\ UNCHANGED <<serverVars, groupVars>>
    \/ EffectYear /\ UNCHANGED <<serverVars, groupVars>>
    \/ EffectMonth /\ UNCHANGED <<serverVars, groupVars>>
    \/ \E mode \in {"all", "month"} :
          SetFilterMode(mode) /\ UNCHANGED <<serverVars, groupVars>>
    \/ \E y \in Years : SetFilterYear(y) /\ UNCHANGED <<serverVars, groupVars>>
    \/ \E mm \in Months : SetFilterMonth(mm) /\ UNCHANGED <<serverVars, groupVars>>

SpecPage == Init /\ [][NextPage]_vars

-----------------------------------------------------------------------------
(* The page as the only client of the API: the table is empty when the page  *)
(* mounts, and what the page has loaded is what the table holds               *)

FormDates == {YMD(2025, 12, 31), YMD(2026, 1, 29), YMD(2026, 3, 2)}

FormHours == {<<"1", "0">>, <<"1", "4">>, <<>>}

FormDescriptions == {<<"a">>, <<" ">>}

FormIds == 1..MaxEntries

NextForm ==
    \/ \E date \in FormDates, hours \in FormHours, description \in FormDescriptions :
          OnSave(date, "Viso Internal", hours, description) /\ UNCHANGED groupVars
    \/ \E id \in FormIds, ok \in BOOLEAN, typed \in {"DELETE", ""} :
          OnDelete(id, ok, typed) /\ UNCHANGED groupVars
    \/ EffectYear /\ UNCHANGED <<serverVars, groupVars>>
    \/ EffectMonth /\ UNCHANGED <<serverVars, groupVars>>
    \/ \E mode \in {"all", "month"} :
          SetFilterMode(mode) /\ UNCHANGED <<serverVars, groupVars>>
    \/ \E y \in Years : SetFilterYear(y) /\ UNCHANGED <<serverVars, groupVars>>
    \/ \E mm \in Months : SetFilterMonth(mm) /\ UNCHANGED <<serverVars, groupVars>>

SpecForm == Init /\ [][NextForm]_vars

-----------------------------------------------------------------------------
(* Properties of the API *)

\* the calendar day a stored row shows to a reader: the first ten characters of
\* its serialised date
DateKeyOfRow(e) == Slice(ToISOString(e.date), 0, 10)

\* the hours stored for the UTC day numbered d
DayTotal(rows, d) == SumRows({e \in rows : e.date.day = d})

\* a step that answers a creation request
PostAnswered == out'.op = "post" /\ vars' # vars

\* a step that answers a deletion request
DeleteAnswered == out'.op = "delete" /\ vars' # vars

\* C1: with creation requests handled one at a time, the hours stored for any
\* calendar date never exceed MAX_HOURS_PER_DAY, whatever is created or deleted
C1_DailyCap ==
    \A e \in store : DayTotal(store, e.date.day) <= MAX_HOURS_PER_DAY

\* a date is full and a further creation for it has just been refused
C1_Witness ==
    /\ out.op = "post"
    /\ out.res = CapExceeded
    /\ \E e \in store :
          /\ DayTotal(store, e.date.day) = MAX_HOURS_PER_DAY
          /\ NewDate(out.body.date, 0) = e.date


\* C2: with creation requests interleaving, every insert has passed the cap check
\* on the sum its own request read, and an insert that takes a date beyond
\* MAX_HOURS_PER_DAY was decided on a sum read before another insert for the date
C2_CheckThenWrite ==
    [][\A c \in Conns :
          (req[c].pc = "agg" /\ req'[c].pc = "idle" /\ store' # store) =>
              /\ req[c].existing + req[c].body.hours.v <= MAX_HOURS_PER_DAY
              /\ DayTotal(store', req[c].dayStart.day) > MAX_HOURS_PER_DAY =>
                    req[c].existing < DayTotal(store, req[c].dayStart.day)]_vars

\* two rows of one date, each inserted after a passing check, exceed the cap
C2_Witness ==
    /\ out.op = "post"
    /\ out.res.status = 201
    /\ \E e \in out.res.created :
          /\ DayTotal(store, e.date.day) > MAX_HOURS_PER_DAY
          /\ Cardinality({x \in store : x.date.day = e.date.day}) = 2

\* a date that is a day of the calendar, written YYYY-MM-DD
WellFormedDate(s) ==
    /\ DateRegex(s)
    /\ LET y == ParseDigits(Slice(s, 0, 4))
           m == ParseDigits(Slice(s, 5, 7))
           d == ParseDigits(Slice(s, 8, 10))
       IN  m \in 1..12 /\ d \in 1..DaysInMonth(y, m)

\* C3: a validated creation request handled alone succeeds and adds exactly its
\* entry when the hours stored for its date plus its own are within the cap,
\* and is otherwise refused with the cap message, the store unchanged
C3_CreateDecision ==
    [][(PostAnswered /\ CreateEntrySchema(out'.body)) =>
          LET b == out'.body
              existingSum == SumRows({e \in store : DateKeyOfRow(e) = b.date})
          IN  IF existingSum + b.hours.v <= MAX_HOURS_PER_DAY
              THEN /\ out'.res.status = 201
                   /\ \E row \in store' \ store :
                         /\ store' = store \cup {row}
                         /\ DateKeyOfRow(row) = b.date
                         /\ row.project = b.project
                         /\ row.hours = b.hours.v
                         /\ row.description = b.description
              ELSE /\ out'.res = CapExceeded
                   /\ store' = store]_vars

\* C4: deleting a positive integer id that is stored answers 204 and removes
\* exactly that row; deleting one that is not stored answers 404 and changes
\* nothing; a creation started afterwards reads the sum of the rows that remain
C4_Delete ==
    [][/\ (DeleteAnswered /\ out'.id.k = "num" /\ out'.id.v > 0) =>
            IF \E e \in store : e.id = out'.id.v
            THEN /\ out'.res.status = 204
                 /\ store' = store \ {e \in store : e.id = out'.id.v}
                 /\ Cardinality(store') = Cardinality(store) - 1
            ELSE /\ out'.res.status = 404
                 /\ store' = store
       /\ \A c \in Conns :
            (req[c].pc = "idle" /\ req'[c].pc = "agg") =>
                req'[c].existing = DayTotal(store, req'[c].dayStart.day)]_vars

\* a row has just been deleted and another row is still stored
C4_Witness ==
    /\ out.op = "delete"
    /\ out.res.status = 204
    /\ store # {}
    /\ \A e \in store : e.id # out.id.v

\* C5: a creation request refused by validation is one the schema rejects, was
\* answered without the stored entries being queried, and left the store as it was
C5_ValidationFirst ==
    [][PostAnswered =>
          /\ (out'.res = ValidationError) = ~CreateEntrySchema(out'.body)
          /\ (out'.res = ValidationError) => (~out'.queried /\ store' = store)]_vars

\* a request was refused by validation while rows were stored
C5_Witness ==
    /\ out.op = "post"
    /\ out.res = ValidationError
    /\ store # {}

\* C6: a creation request whose date is no day of the calendar is refused by
\* validation, and a created row is stored at the start of the UTC day its
\* request names
C6_CalendarDate ==
    out.op = "post" =>
        /\ ~WellFormedDate(out.body.date) => out.res = ValidationError
        /\ \A row \in out.res.created :
              DateKeyOfRow(row) = out.body.date /\ row.date.ms = 0

\* C7: a creation request whose description is empty once trimmed is refused by
\* validation and adds no row
C7_BlankDescription ==
    (out.op = "post" /\ Trim(out.body.description) = <<>>) =>
        (out.res = ValidationError /\ out.res.created = {})

\* a message states a number n / a string s
StatesNumber(message, n) ==
    \E i \in 1..Len(message) : message[i] = NumPart(n)
StatesString(message, s) ==
    \E i \in 1..Len(message) : message[i] = StrPart(s)

\* C8: a creation request refused by the cap check is answered with a message
\* that states the limit and the request's date
C8_CapMessage ==
    (out.op = "post" /\ out.queried /\ out.res.status = 400) =>
        /\ StatesNumber(out.res.message, MAX_HOURS_PER_DAY)
        /\ StatesString(out.res.message, out.body.date)

-----------------------------------------------------------------------------
(* Properties of the page's grouping *)

AllFinite(list) == \A i \in 1..Len(list) : IsFinite(list[i].hours)

RECURSIVE ExactSum(_)
\* the sum of the hours of a list of entries with finite hours
ExactSum(list) ==
    IF list = <<>> THEN 0 ELSE list[1].hours.v + ExactSum(Tail(list))

\* C10: for a list of entries with finite hours, the grand total over the
\* buckets groupByDate returns is the sum of the hours of the entries of the list
C10_GrandTotal ==
    (gdone /\ AllFinite(glist)) => SumTotals(gout) = Num(ExactSum(glist))

\* a list of finite hours was grouped into two buckets, one with several entries
C10_Witness ==
    /\ gdone
    /\ AllFinite(glist)
    /\ Len(gout) = 2
    /\ \E i \in 1..Len(gout) : Len(gout[i].entries) >= 2

-----------------------------------------------------------------------------
(* Properties of the page's filter *)

Range(list) == {list[i] : i \in 1..Len(list)}

\* the entries the grouped view shows
ViewEntries == UNION {Range(grouped[i].entries) : i \in 1..Len(grouped)}

\* the loaded entries of the selected year and month
Matching ==
    {e \in Range(entries) :
        Slice(e.date, 0, 4) = filterYear /\ Slice(e.date, 5, 7) = filterMonth}

RECURSIVE SumEntries(_)
\* the sum of the hours of a set of loaded entries
SumEntries(S) ==
    IF S = {} THEN 0
    ELSE LET e == CHOOSE x \in S : TRUE
         IN  e.hours.v + SumEntries(S \ {e})

ShowsMatching ==
    ViewEntries \subseteq Matching /\ grandTotal = Num(SumEntries(Matching))

ShowsAll ==
    ViewEntries = Range(entries) /\ grandTotal = Num(SumEntries(Range(entries)))

\* C9 as stated: in month mode the grouped view holds only the entries of the
\* selected year and month and the grand total is their sum; in "all" mode the
\* view is the grouping of all the loaded entries
C9_MonthFilter ==
    /\ filterMode = "month" => ShowsMatching
    /\ filterMode = "all" => ShowsAll

\* C9, amended: in month mode with a year and a month selected the grouped view
\* holds only the entries of that year and month and the grand total is their
\* sum; in "all" mode, and in month mode while no year or no month is selected,
\* the view is the grouping of all the loaded entries
C9_MonthFilterSelected ==
    /\ (filterMode = "month" /\ filterYear # <<>> /\ filterMonth # <<>>) =>
            ShowsMatching
    /\ (filterMode = "all" \/ filterYear = <<>> \/ filterMonth = <<>>) => ShowsAll

\* month mode with a selection that keeps some loaded entries and leaves out others
C9_Witness ==
    /\ filterMode = "month"
    /\ filterYear # <<>>
    /\ filterMonth # <<>>
    /\ Matching # {}
    /\ Matching # Range(entries)

-----------------------------------------------------------------------------
(* Properties of groupByDate: partition, order, totals *)

\* the places <<i, j>> of the output: entry j of bucket i
Places(groups) ==
    {<<i, j>> \in (1..Len(groups)) \X (1..MaxLen + 1) : j <= Len(groups[i].entries)}

\* C11: groupByDate partitions the list by calendar date: every entry of a bucket
\* has the bucket's date as the first ten characters of its date, every entry of
\* the list is at exactly one place of the output and the output has no other
\* entry, no two buckets have the same date, and the total of a bucket whose
\* hours are finite is the sum of the hours of its own entries
C11_Partition ==
    gdone =>
        /\ \A p \in Places(gout) :
              Slice(gout[p[1]].entries[p[2]].date, 0, 10) = gout[p[1]].date
        /\ \A k \in 1..Len(glist) :
              Cardinality({p \in Places(gout) :
                              gout[p[1]].entries[p[2]] = glist[k]}) = 1
        /\ Cardinality(Places(gout)) = Len(glist)
        /\ \A i, j \in 1..Len(gout) : i # j => gout[i].date # gout[j].date
        /\ \A i \in 1..Len(gout) :
              AllFinite(gout[i].entries) =>
                  gout[i].total = Num(ExactSum(gout[i].entries))

\* a list whose dates alternate was grouped: the first and the third entry share
\* a bucket, the second is in the other
C11_Witness ==
    /\ gdone
    /\ Len(glist) >= 3
    /\ glist[1].date = glist[3].date
    /\ glist[1].date # glist[2].date
    /\ Len(gout) = 2

\* C12: the buckets groupByDate returns are in strictly descending order of
\* date, and in every bucket the createdAt of an entry is greater than or equal
\* to the createdAt of the entry after it
C12_Descending ==
    gdone =>
        /\ \A i \in 1..(Len(gout) - 1) : StrLess(gout[i + 1].date, gout[i].date)
        /\ \A i \in 1..Len(gout) :
              \A j \in 1..(Len(gout[i].entries) - 1) :
                  ~StrLess(gout[i].entries[j].createdAt,
                           gout[i].entries[j + 1].createdAt)

\* the list came with the older day first and, on one day, the older entry
\* first: both the buckets and a bucket's entries had to be put in order
C12_Witness ==
    /\ gdone
    /\ Len(gout) >= 2
    /\ StrLess(glist[1].date, glist[Len(glist)].date)
    /\ \E j, k \in 1..Len(glist) :
          /\ j < k
          /\ glist[j].date = glist[k].date
          /\ StrLess(glist[j].createdAt, glist[k].createdAt)

\* C13: two entries of a bucket with equal createdAt are in the output in the
\* order they had in the list (an entry's id is its place in the list)
C13_StableTies ==
    gdone =>
        \A i \in 1..Len(gout) :
            \A j, k \in 1..Len(gout[i].entries) :
                (j < k /\ gout[i].entries[j].createdAt = gout[i].entries[k].createdAt)
                    => gout[i].entries[j].id < gout[i].entries[k].id

RECURSIVE FiniteSum(_)
\* the sum of the finite hours of a list of entries
FiniteSum(list) ==
    IF list = <<>> THEN 0
    ELSE (IF IsFinite(list[1].hours) THEN list[1].hours.v ELSE 0)
             + FiniteSum(Tail(list))

\* C14: an entry whose hours are not a finite number adds nothing to a total:
\* every bucket total is the sum of the finite hours of the bucket's entries and
\* the grand total is the sum of the finite hours of the list
C14_LenientTotals ==
    gdone =>
        /\ \A i \in 1..Len(gout) :
              gout[i].total = Num(FiniteSum(gout[i].entries))
        /\ SumTotals(gout) = Num(FiniteSum(glist))

-----------------------------------------------------------------------------
(* Properties of the page's filter state and of the form's cap check *)

InList(list, x) == \E i \in 1..Len(list) : list[i] = x

\* C15: once the effects have settled and entries are loaded, the selected year
\* is one of the years of the loaded entries and the selected month is one of
\* the months of that year
C15_FilterOffered ==
    (Settled /\ entries # <<>>) =>
        /\ InList(availableYears, filterYear)
        /\ InList(availableMonthsForYear, filterMonth)

\* the hours of the loaded entries of a calendar date
LoadedDayTotal(date) ==
    SumEntries({e \in Range(entries) : Slice(e.date, 0, 10) = date})

\* C16: in every filter state currentDayTotal is the sum of the hours of the
\* loaded entries of the form's date, and the page sends a creation request
\* only when that sum plus the hours of the form is at most 24
C16_PreCheck ==
    /\ [](Settled => \A date \in FormDates :
                         currentDayTotal(date) = Num(LoadedDayTotal(date)))
    /\ [][(out' # out /\ out'.op = "post") =>
              LoadedDayTotal(out'.body.date) + out'.body.hours.v
                  <= MAX_HOURS_PER_DAY]_vars

=============================================================================
